---- MODULE Spec2Model ----
(***************************************************************************)
(* Dragonfly: a window that shows one of six 2D figures and advances to    *)
(* the next one when the Space key is released.                            *)
(*                                                                         *)
(* The model has three parts:                                              *)
(*   - the geometry catalog (vertex/mod.rs and core/vertex.rs): the fixed  *)
(*     tables, the circle generator and get_figure, as operators;          *)
(*   - the application (dragonfly.rs, context.rs): the event handlers of   *)
(*     the ApplicationHandler as actions over the Option<Context> and the  *)
(*     Option<Window>;                                                     *)
(*   - two call harnesses that apply the pure functions to inputs drawn    *)
(*     from bounded sets.                                                  *)
(*                                                                         *)
(* Floating point components are kept symbolically.  A component is        *)
(*     amp * fn(turn), turn = num/den + sixths/6 of a full turn (2*pi),    *)
(* with amp in units of 1e-8, fn one of "const" (the literal amp),         *)
(* "cos", "sin".  den = 0 stands for the division by zero of Circle(0).    *)
(***************************************************************************)
EXTENDS Integers, Sequences, FiniteSets, TLC

VARIABLES
    window,            \* Dragonfly.window : Option<Arc<Window>>, TRUE = Some
    context,           \* Dragonfly.context : Option<Context>, <<>> = None, <<c>> = Some(c)
    status,            \* "running", "exited" (event_loop.exit()), or "panic: <message>"
    redraw_requested,  \* a window.request_redraw() not yet answered by RedrawRequested
    requested,         \* the figure fields of the context when request_redraw() was last called
    frame,             \* what the last successful render drew, <<>> before the first one
    surface_result,    \* what get_current_texture() gave the last render, "-" before the first one
    last_event,        \* the event handled by the last step
    history,           \* fig_idx after creation and after each advance (the last NumFigures + 1)
    overflow_checks,   \* build profile: TRUE = arithmetic overflow panics, FALSE = it wraps
    fn_pc,             \* call harness: "idle", "call", "return"
    fn_arg,            \* call harness: the argument of the call
    fn_ret             \* call harness: the value returned

vars == <<window, context, status, redraw_requested, requested, frame,
          surface_result, last_event, history, overflow_checks, fn_pc, fn_arg, fn_ret>>

appVars == <<window, context, status, redraw_requested, requested, frame,
             surface_result, last_event, history>>

fnVars == <<fn_pc, fn_arg, fn_ret>>

----
(* Bounds *)

\* window dimensions delivered by the environment range over 0..MaxSize
MaxSize == 2

\* small segment counts handed to the circle generator: 0..MaxSegments
MaxSegments == 70

\* segment counts around the u16 boundary: U16Range - 2 .. U16Range + MaxWrap
MaxWrap == 1

----
(* Machine integers *)

U8Range == 256

U16Range == 65536

\* `x as u16`
AsU16(x) == x % U16Range

----
(* Floating point components and vertices *)

Lit(c) == [amp |-> c, fn |-> "const", num |-> 0, den |-> 1, sixths |-> 0]

Trig(a, f, i, n, k) == [amp |-> a, fn |-> f, num |-> i, den |-> n, sixths |-> k]

\* Vertex { position: [x, y, z], color: [r, g, b] } of literals, in units of 1e-8
Vertex(x, y, z, r, g, b) ==
    [position |-> <<Lit(x), Lit(y), Lit(z)>>, color |-> <<Lit(r), Lit(g), Lit(b)>>]

----
(* Geometry catalog, revision vertex/mod.rs: enum Figure with Circle(u32) *)

\* the segment count get_figure gives the circle
CircleSegments == 64

\* a variant without a parameter; segments is only read of Circle
Figure(tag) == [tag |-> tag, segments |-> 0]

\* Figure::Circle(n)
Circle(n) == [tag |-> "Circle", segments |-> n]

\* get_figure with the arms of Rectangle and Trapezoid exchanged
get_figure_swapped(i) ==
    CASE i = 0 -> Figure("Triangle")
      [] i = 1 -> Figure("Pentagon")
      [] i = 2 -> Figure("Trapezoid")
      [] i = 3 -> Figure("Rectangle")
      [] i = 4 -> Figure("Parallelogram")
      [] i = 5 -> Circle(CircleSegments)
      [] OTHER -> Figure("Triangle")

\* Figure::get_figure(i: u8) of vertex/mod.rs
get_figure(i) ==
    CASE i = 0 -> Figure("Triangle")
      [] i = 1 -> Figure("Pentagon")
      [] i = 2 -> Figure("Rectangle")
      [] i = 3 -> Figure("Trapezoid")
      [] i = 4 -> Figure("Parallelogram")
      [] i = 5 -> Circle(CircleSegments)
      [] OTHER -> Figure("Triangle")

\* the vertex the closure of the Circle arm builds for i, with
\* angle = i as f32 * TWO_PI / num_segments as f32
RimVertex(i, n) ==
    [position |-> <<Trig(50000000, "cos", i, n, 0), Trig(50000000, "sin", i, n, 0), Lit(0)>>,
     color |-> <<Trig(100000000, "sin", i, n, 0),
                 Trig(100000000, "sin", i, n, 2),
                 Trig(100000000, "sin", i, n, 4)>>]

\* CircleVertices without the closing rim vertex: the range 0..num_segments
CircleVertices_open(n) ==
    <<Vertex(0, 0, 0, 50000000, 50000000, 50000000)>>
        \o [k \in 1..n |-> RimVertex(k - 1, n)]

\* once(center).chain((0..(num_segments + 1)).map(..)).collect()
CircleVertices(n) ==
    <<Vertex(0, 0, 0, 50000000, 50000000, 50000000)>>
        \o [k \in 1..(n + 1) |-> RimVertex(k - 1, n)]

\* <Figure as Mesh>::get_vertices
get_vertices(figure) ==
    CASE figure.tag = "Triangle" ->
            << Vertex(0, 50000000, 0,          100000000, 0, 0),
               Vertex(-50000000, -50000000, 0, 0, 100000000, 0),
               Vertex(50000000, -50000000, 0,  0, 0, 100000000) >>
      [] figure.tag = "Pentagon" ->
            << Vertex(-8682410, 49240386, 0,   100000000, 0, 0),
               Vertex(-49513406, 6958647, 0,   50000000, 50000000, 0),
               Vertex(-21918549, -44939706, 0, 0, 100000000, 0),
               Vertex(35966998, -34732910, 0,  0, 50000000, 50000000),
               Vertex(44147372, 23473590, 0,   0, 0, 100000000) >>
      [] figure.tag = "Rectangle" ->
            << Vertex(-50000000, 25000000, 0,  100000000, 0, 0),
               Vertex(-50000000, -25000000, 0, 50000000, 50000000, 0),
               Vertex(50000000, -25000000, 0,  0, 50000000, 50000000),
               Vertex(50000000, 25000000, 0,   0, 0, 100000000) >>
      [] figure.tag = "Trapezoid" ->
            << Vertex(-25000000, 50000000, 0,  100000000, 0, 0),
               Vertex(-50000000, -50000000, 0, 50000000, 50000000, 0),
               Vertex(50000000, -50000000, 0,  0, 50000000, 50000000),
               Vertex(25000000, 50000000, 0,   0, 0, 100000000) >>
      [] figure.tag = "Parallelogram" ->
            << Vertex(-25000000, 50000000, 0,  100000000, 0, 0),
               Vertex(-50000000, -50000000, 0, 50000000, 50000000, 0),
               Vertex(25000000, -50000000, 0,  0, 50000000, 50000000),
               Vertex(50000000, 50000000, 0,   0, 0, 100000000) >>
      [] figure.tag = "Circle" -> CircleVertices(figure.segments)

\* [0, i, i + 1] for one i of the index range
FanTriangle(i) == <<0, i, i + 1>>

\* (1..hi).flat_map(|i| [0, i, i + 1]).collect() for the exclusive upper bound hi
FlatMapFan(hi) ==
    [k \in 1..(3 * (IF hi > 1 THEN hi - 1 ELSE 0)) |-> FanTriangle(((k - 1) \div 3) + 1)[((k - 1) % 3) + 1]]

\* (1..(num_segments + 1) as u16).flat_map(|i| [0, i, i + 1]).collect()
CircleIndices(n) == FlatMapFan(AsU16(n + 1))

\* get_indices with the pentagon's last triangle left out
get_indices_short_pentagon(figure) ==
    CASE figure.tag = "Triangle" -> <<0, 1, 2>>
      [] figure.tag = "Pentagon" -> <<0, 1, 4, 1, 2, 4>>
      [] figure.tag \in {"Rectangle", "Trapezoid", "Parallelogram"} -> <<0, 1, 3, 1, 2, 3>>
      [] figure.tag = "Circle" -> CircleIndices(figure.segments)

\* get_indices with the first triangle of the quadrilaterals named clockwise
get_indices_clockwise(figure) ==
    CASE figure.tag = "Triangle" -> <<0, 1, 2>>
      [] figure.tag = "Pentagon" -> <<0, 1, 4, 1, 2, 4, 2, 3, 4>>
      [] figure.tag \in {"Rectangle", "Trapezoid", "Parallelogram"} -> <<0, 3, 1, 1, 2, 3>>
      [] figure.tag = "Circle" -> CircleIndices(figure.segments)

\* get_indices with every fixed polygon fanned out from vertex 0
get_indices_fan_from_zero(figure) ==
    CASE figure.tag = "Triangle" -> <<0, 1, 2>>
      [] figure.tag = "Pentagon" -> <<0, 1, 2, 0, 2, 3, 0, 3, 4>>
      [] figure.tag \in {"Rectangle", "Trapezoid", "Parallelogram"} -> <<0, 1, 2, 0, 2, 3>>
      [] figure.tag = "Circle" -> CircleIndices(figure.segments)

\* <Figure as Mesh>::get_indices
get_indices(figure) ==
    CASE figure.tag = "Triangle" -> <<0, 1, 2>>
      [] figure.tag = "Pentagon" -> <<0, 1, 4, 1, 2, 4, 2, 3, 4>>
      [] figure.tag \in {"Rectangle", "Trapezoid", "Parallelogram"} -> <<0, 1, 3, 1, 2, 3>>
      [] figure.tag = "Circle" -> CircleIndices(figure.segments)

----
(* Geometry catalog, revision core/vertex.rs: constant tables, enum Figure *)
(* without a parameter, circle macros instantiated with 64                 *)

TRIANGLE_VERTICES ==
    << Vertex(0, 50000000, 0,          100000000, 0, 0),
       Vertex(-50000000, -50000000, 0, 0, 100000000, 0),
       Vertex(50000000, -50000000, 0,  0, 0, 100000000) >>

TRIANGLE_INDICES == <<0, 1, 2>>

PENTAGON_VERTICES ==
    << Vertex(-8682410, 49240386, 0,   100000000, 0, 0),
       Vertex(-49513406, 6958647, 0,   50000000, 50000000, 0),
       Vertex(-21918549, -44939706, 0, 0, 100000000, 0),
       Vertex(35966998, -34732910, 0,  0, 50000000, 50000000),
       Vertex(44147372, 23473590, 0,   0, 0, 100000000) >>

PENTAGON_INDICES == <<0, 1, 4, 1, 2, 4, 2, 3, 4>>

RECTANGLE_VERTICES ==
    << Vertex(-50000000, 25000000, 0,  100000000, 0, 0),
       Vertex(-50000000, -25000000, 0, 50000000, 50000000, 0),
       Vertex(50000000, -25000000, 0,  0, 50000000, 50000000),
       Vertex(50000000, 25000000, 0,   0, 0, 100000000) >>

RECTANGLE_INDICES == <<0, 1, 3, 1, 2, 3>>

TRAPEZOID_VERTICES ==
    << Vertex(-25000000, 50000000, 0,  100000000, 0, 0),
       Vertex(-50000000, -50000000, 0, 50000000, 50000000, 0),
       Vertex(50000000, -50000000, 0,  0, 50000000, 50000000),
       Vertex(25000000, 50000000, 0,   0, 0, 100000000) >>

TRAPEZOID_INDICES == <<0, 1, 2, 0, 2, 3>>

PARALLELOGRAM_VERTICES ==
    << Vertex(-25000000, 50000000, 0,  100000000, 0, 0),
       Vertex(-50000000, -50000000, 0, 50000000, 50000000, 0),
       Vertex(25000000, -50000000, 0,  0, 50000000, 50000000),
       Vertex(50000000, 50000000, 0,   0, 0, 100000000) >>

PARALLELOGRAM_INDICES == <<0, 1, 2, 0, 2, 3>>

\* circle_vertices!($num_segments)
circle_vertices(NUM_SEGMENTS) ==
    <<Vertex(0, 0, 0, 50000000, 50000000, 50000000)>>
        \o [k \in 1..(NUM_SEGMENTS + 1) |-> RimVertex(k - 1, NUM_SEGMENTS)]

\* circle_indices!($num_segments)
circle_indices(NUM_SEGMENTS) == FlatMapFan(AsU16(NUM_SEGMENTS + 1))

\* Figure::get_figure(i: u8) of core/vertex.rs; the variant is spelled Rectange there
core_get_figure(i) ==
    CASE i = 0 -> "Triangle"
      [] i = 1 -> "Pentagon"
      [] i = 2 -> "Rectange"
      [] i = 3 -> "Trapezoid"
      [] i = 4 -> "Parallelogram"
      [] i = 5 -> "Circle"
      [] OTHER -> "Triangle"

\* Figure::get_vertices_and_indices of core/vertex.rs
get_vertices_and_indices(figure) ==
    CASE figure = "Triangle" -> <<TRIANGLE_VERTICES, TRIANGLE_INDICES>>
      [] figure = "Pentagon" -> <<PENTAGON_VERTICES, PENTAGON_INDICES>>
      [] figure = "Rectange" -> <<RECTANGLE_VERTICES, RECTANGLE_INDICES>>
      [] figure = "Trapezoid" -> <<TRAPEZOID_VERTICES, TRAPEZOID_INDICES>>
      [] figure = "Parallelogram" -> <<PARALLELOGRAM_VERTICES, PARALLELOGRAM_INDICES>>
      [] figure = "Circle" -> <<circle_vertices(64), circle_indices(64)>>

----
(* The vertex record and its buffer layout (vertex/vertex.rs, core/vertex.rs) *)

\* std::mem::size_of::<f32>() and its alignment
F32 == [size |-> 4, align |-> 4]

\* the layout of [T; n]
ArrayOf(T, n) == [size |-> T.size * n, align |-> T.align]

\* x rounded up to a multiple of align
AlignUp(x, align) == ((x + align - 1) \div align) * align

\* #[repr(C)] struct Vertex { position: [f32; 3], color: [f32; 3] }
VertexFields == <<ArrayOf(F32, 3), ArrayOf(F32, 3)>>

\* #[repr(C)]: the offset of field k is the end of field k - 1 rounded up to
\* the alignment of field k
RECURSIVE OffsetOf(_, _)
OffsetOf(fields, k) ==
    IF k = 1 THEN 0
    ELSE AlignUp(OffsetOf(fields, k - 1) + fields[k - 1].size, fields[k].align)

Max(S) == CHOOSE x \in S : \A y \in S : y <= x

\* #[repr(C)]: the size is the end of the last field rounded up to the
\* largest alignment of the fields
SizeOf(fields) ==
    AlignUp(OffsetOf(fields, Len(fields)) + fields[Len(fields)].size,
            Max({ fields[k].align : k \in 1..Len(fields) }))

\* Vertex::desc with the color attribute bound to the offset of a 16-byte
\* aligned vec3
desc_color_at_16 ==
    [ array_stride |-> SizeOf(VertexFields),
      step_mode |-> "Vertex",
      attributes |-> << [offset |-> 0, shader_location |-> 0, format |-> "Float32x3"],
                        [offset |-> 16, shader_location |-> 1, format |-> "Float32x3"] >> ]

\* Vertex::desc()
desc ==
    [ array_stride |-> SizeOf(VertexFields),
      step_mode |-> "Vertex",
      attributes |-> << [offset |-> 0, shader_location |-> 0, format |-> "Float32x3"],
                        [offset |-> ArrayOf(F32, 3).size, shader_location |-> 1,
                         format |-> "Float32x3"] >> ]

----

(* The graphics context (context.rs) *)

\* the number of figures the Space handler cycles through: the 6 of `% 6`
NumFigures == 6

\* the outcomes of surface.get_current_texture(): Ok or a wgpu::SurfaceError
SurfaceResults == {"Ok", "Timeout", "Outdated", "Lost", "OutOfMemory"}

\* Context::new(window), with size = window.inner_size()
ContextNew(width, height) ==
    LET fig_idx == 0
        figure == get_figure(fig_idx)
        vertices == get_vertices(figure)
        indices == get_indices(figure)
    IN  [ size |-> <<width, height>>,
          config |-> <<width, height>>,
          surface |-> <<>>,
          fig_idx |-> fig_idx,
          vertex_buffer |-> vertices,
          num_vertices |-> Len(vertices),
          index_buffer |-> indices,
          num_indices |-> Len(indices) ]

\* resize without the test of the dimensions
resize_unguarded(c, width, height) ==
    [c EXCEPT !.size = <<width, height>>,
              !.config = <<width, height>>,
              !.surface = <<width, height>>]

\* Context::resize(new_size); surface is the configuration last handed to surface.configure
resize(c, width, height) ==
    IF width > 0 /\ height > 0
    THEN [c EXCEPT !.size = <<width, height>>,
                   !.config = <<width, height>>,
                   !.surface = <<width, height>>]
    ELSE c

\* Context::render(): get_current_texture().expect("Failed to get texture"), then
\* the render pass and present; draw is what draw_indexed(0..num_indices) reads
render(c, acquired) ==
    IF acquired = "Ok"
    THEN [ result |-> "Ok",
           draw |-> << [ vertex_buffer |-> c.vertex_buffer,
                         index_buffer |-> c.index_buffer,
                         num_indices |-> c.num_indices ] >> ]
    ELSE [ result |-> "panic: Failed to get texture", draw |-> <<>> ]

----
(* The application (dragonfly.rs) *)

Event(type) == <<type, "-", "-", FALSE>>

KeyEvent(key, state, repeat) == <<"KeyboardInput", key, state, repeat>>

\* the fields of the context that describe the figure shown
FigureFields(c) ==
    [ fig_idx |-> c.fig_idx,
      vertex_buffer |-> c.vertex_buffer,
      num_vertices |-> c.num_vertices,
      index_buffer |-> c.index_buffer,
      num_indices |-> c.num_indices ]

\* window.request_redraw() called while the context is c
RequestRedraw(c) ==
    /\ redraw_requested' = TRUE
    /\ requested' = <<FigureFields(c)>>

Remember(h, fig_idx) ==
    IF Len(h) = NumFigures + 1 THEN Tail(h) \o <<fig_idx>> ELSE h \o <<fig_idx>>

Delivered == status = "running" /\ window /\ context # <<>>

\* Dragonfly::default(), before event_loop.run_app
AppInit ==
    /\ window = FALSE
    /\ context = <<>>
    /\ status = "running"
    /\ redraw_requested = FALSE
    /\ requested = <<>>
    /\ frame = <<>>
    /\ surface_result = "-"
    /\ last_event = Event("none")
    /\ history = <<>>

\* Resumed without the test `self.window.is_none()`
Resumed_recreates ==
    /\ status = "running"
    /\ last_event' = Event("Resumed")
    /\ \E created \in BOOLEAN, width \in 1..MaxSize, height \in 1..MaxSize :
          IF created
          THEN /\ window' = TRUE
               /\ context' = <<ContextNew(width, height)>>
               /\ history' = <<context'[1].fig_idx>>
               /\ UNCHANGED <<status, redraw_requested, requested, frame>>
          ELSE /\ status' = "panic: Failed to create window."
               /\ UNCHANGED <<window, context, history, redraw_requested, requested, frame>>
    /\ UNCHANGED <<surface_result, overflow_checks, fnVars>>

\* fn resumed
Resumed ==
    /\ status = "running"
    /\ last_event' = Event("Resumed")
    /\ IF ~window
       THEN \E created \in BOOLEAN, width \in 1..MaxSize, height \in 1..MaxSize :
                IF created
                THEN /\ window' = TRUE
                     /\ context' = <<ContextNew(width, height)>>
                     /\ history' = <<context'[1].fig_idx>>
                     /\ UNCHANGED <<status, redraw_requested, requested, frame>>
                ELSE /\ status' = "panic: Failed to create window."
                     /\ UNCHANGED <<window, context, history, redraw_requested, requested, frame>>
       ELSE UNCHANGED <<window, context, history, status, redraw_requested, requested, frame>>
    /\ UNCHANGED <<surface_result, overflow_checks, fnVars>>

\* WindowEvent::RedrawRequested
RedrawRequested ==
    /\ Delivered
    /\ last_event' = Event("RedrawRequested")
    /\ \E acquired \in SurfaceResults :
          LET r == render(context[1], acquired) IN
          /\ surface_result' = acquired
          /\ CASE r.result = "Ok" ->
                    /\ frame' = r.draw
                    /\ redraw_requested' = FALSE
                    /\ UNCHANGED <<context, status, requested>>
               [] r.result = "Lost" ->
                    /\ context' = <<resize(context[1], context[1].size[1], context[1].size[2])>>
                    /\ RequestRedraw(context'[1])
                    /\ UNCHANGED <<status, frame>>
               [] r.result = "OutOfMemory" ->
                    /\ status' = "exited"
                    /\ redraw_requested' = FALSE
                    /\ UNCHANGED <<context, frame, requested>>
               [] r.result \in {"Timeout", "Outdated"} ->
                    /\ redraw_requested' = FALSE
                    /\ UNCHANGED <<context, status, frame, requested>>
               [] OTHER ->
                    /\ status' = r.result
                    /\ redraw_requested' = FALSE
                    /\ UNCHANGED <<context, frame, requested>>
    /\ UNCHANGED <<window, history, overflow_checks, fnVars>>

\* WindowEvent::Resized(physical_size)
Resized ==
    /\ Delivered
    /\ last_event' = Event("Resized")
    /\ \E width \in 0..MaxSize, height \in 0..MaxSize :
          /\ context' = <<resize(context[1], width, height)>>
          /\ RequestRedraw(context'[1])
    /\ UNCHANGED <<window, status, frame, history, surface_result, overflow_checks, fnVars>>

\* WindowEvent::ScaleFactorChanged { .. }, resizing to window.inner_size()
ScaleFactorChanged ==
    /\ Delivered
    /\ last_event' = Event("ScaleFactorChanged")
    /\ \E width \in 0..MaxSize, height \in 0..MaxSize :
          /\ context' = <<resize(context[1], width, height)>>
          /\ RequestRedraw(context'[1])
    /\ UNCHANGED <<window, status, frame, history, surface_result, overflow_checks, fnVars>>

\* new_fig_idx without the `% 6`
new_fig_idx_no_wrap(fig_idx) == (fig_idx + 1) % U8Range

\* new_fig_idx with the modulus one too small
new_fig_idx_mod5(fig_idx) == ((fig_idx + 1) % U8Range) % (NumFigures - 1)

\* new_fig_idx with the modulus one too large
new_fig_idx_mod7(fig_idx) == ((fig_idx + 1) % U8Range) % (NumFigures + 1)

\* let new_fig_idx = (fig_idx + 1) % 6, on u8
new_fig_idx(fig_idx) == ((fig_idx + 1) % U8Range) % NumFigures

\* Advance without the replacement of index_buffer and num_indices
Advance_stale_indices(c) ==
    LET new == new_fig_idx(c.fig_idx)
        c1 == [c EXCEPT !.fig_idx = new]
        mesh == get_vertices_and_indices(core_get_figure(new))
        c2 == [c1 EXCEPT !.vertex_buffer = mesh[1]]
        c3 == [c2 EXCEPT !.num_vertices = Len(mesh[1])]
    IN  c3

\* the body of `if state == ElementState::Released`, in statement order
Advance(c) ==
    LET new == new_fig_idx(c.fig_idx)
        c1 == [c EXCEPT !.fig_idx = new]
        figure == core_get_figure(new)
        mesh == get_vertices_and_indices(figure)
        vertices == mesh[1]
        indices == mesh[2]
        c2 == [c1 EXCEPT !.vertex_buffer = vertices]
        c3 == [c2 EXCEPT !.num_vertices = Len(vertices)]
        c4 == [c3 EXCEPT !.index_buffer = indices]
        c5 == [c4 EXCEPT !.num_indices = Len(indices)]
    IN  c5

\* KeyboardInputSpace with request_redraw() called before the buffers are replaced
KeyboardInputSpace_redraw_first(state, repeat) ==
    /\ Delivered
    /\ last_event' = KeyEvent("Space", state, repeat)
    /\ RequestRedraw(context[1])
    /\ IF state = "Released"
       THEN /\ context' = <<Advance(context[1])>>
            /\ history' = Remember(history, context'[1].fig_idx)
            /\ UNCHANGED status
       ELSE UNCHANGED <<context, history, status>>
    /\ UNCHANGED <<window, frame, surface_result, overflow_checks, fnVars>>

\* KeyboardInputSpace without the test of the key state
KeyboardInputSpace_any_state(state, repeat) ==
    /\ Delivered
    /\ last_event' = KeyEvent("Space", state, repeat)
    /\ context' = <<Advance(context[1])>>
    /\ history' = Remember(history, context'[1].fig_idx)
    /\ RequestRedraw(context'[1])
    /\ UNCHANGED <<status, window, frame, surface_result, overflow_checks, fnVars>>

\* WindowEvent::KeyboardInput with physical key Space
KeyboardInputSpace(state, repeat) ==
    /\ Delivered
    /\ last_event' = KeyEvent("Space", state, repeat)
    /\ IF state = "Released"
       THEN IF context[1].fig_idx + 1 >= U8Range /\ overflow_checks
            THEN /\ status' = "panic: attempt to add with overflow"
                 /\ UNCHANGED <<context, history, redraw_requested, requested>>
            ELSE /\ context' = <<Advance(context[1])>>
                 /\ history' = Remember(history, context'[1].fig_idx)
                 /\ RequestRedraw(context'[1])
                 /\ UNCHANGED status
       ELSE /\ RequestRedraw(context[1])
            /\ UNCHANGED <<context, history, status>>
    /\ UNCHANGED <<window, frame, surface_result, overflow_checks, fnVars>>

\* WindowEvent::CloseRequested
CloseRequested ==
    /\ Delivered
    /\ last_event' = Event("CloseRequested")
    /\ status' = "exited"
    /\ UNCHANGED <<window, context, redraw_requested, requested, frame, history,
                   surface_result, overflow_checks, fnVars>>

\* the `_ => ()` arm: keyboard input of another key and every other window event
OtherEvent ==
    /\ Delivered
    /\ \E e \in {KeyEvent("KeyA", "Pressed", FALSE), KeyEvent("KeyA", "Pressed", TRUE),
                 KeyEvent("KeyA", "Released", FALSE),
                 Event("Focused"), Event("CursorMoved"), Event("Moved")} :
          last_event' = e
    /\ UNCHANGED <<window, context, status, redraw_requested, requested, frame, history,
                   surface_result, overflow_checks, fnVars>>

SpaceReleased == KeyboardInputSpace("Released", FALSE)

SpacePressed == \E repeat \in BOOLEAN : KeyboardInputSpace("Pressed", repeat)

Init ==
    /\ AppInit
    /\ overflow_checks \in BOOLEAN
    /\ fn_pc = "idle"
    /\ fn_arg = <<>>
    /\ fn_ret = <<>>

Next ==
    \/ Resumed
    \/ RedrawRequested
    \/ Resized
    \/ ScaleFactorChanged
    \/ SpaceReleased
    \/ SpacePressed
    \/ CloseRequested
    \/ OtherEvent

Spec == Init /\ [][Next]_vars

----
(* window_event called while self.window and self.context are None: the    *)
(* handler as the ApplicationHandler trait lets an event loop call it,     *)
(* before the first Resumed has created the window.                        *)

\* the message of Option::unwrap() on None
UnwrapNone == "panic: called Option::unwrap() on a None value"

\* the arms of window_event that unwrap self.context or self.window first
UnwrappingEvents ==
    {Event("RedrawRequested"), Event("Resized"), Event("ScaleFactorChanged"),
     KeyEvent("Space", "Released", FALSE), KeyEvent("Space", "Pressed", FALSE),
     KeyEvent("Space", "Pressed", TRUE)}

\* the arms that touch neither: CloseRequested and `_ => ()`
IgnoredEvents ==
    {KeyEvent("KeyA", "Pressed", FALSE), KeyEvent("KeyA", "Released", FALSE),
     Event("Focused"), Event("CursorMoved"), Event("Moved")}

\* fn window_event with self.context = None and self.window = None
WindowEventAbsent ==
    /\ status = "running"
    /\ ~window
    /\ context = <<>>
    /\ \E e \in UnwrappingEvents \cup IgnoredEvents \cup {Event("CloseRequested")} :
          /\ last_event' = e
          /\ status' = CASE e \in UnwrappingEvents -> UnwrapNone
                         [] e = Event("CloseRequested") -> "exited"
                         [] OTHER -> status
    /\ UNCHANGED <<window, context, redraw_requested, requested, frame, history,
                   surface_result, overflow_checks, fnVars>>

NextAnyOrder ==
    \/ Resumed
    \/ RedrawRequested
    \/ Resized
    \/ ScaleFactorChanged
    \/ SpaceReleased
    \/ SpacePressed
    \/ CloseRequested
    \/ OtherEvent
    \/ WindowEventAbsent

\* the application under an event loop that may deliver window events
\* before the first Resumed
SpecAnyOrder == Init /\ [][NextAnyOrder]_vars

----
(* Call harness for the pure functions of the catalog: one call per         *)
(* behaviour, the argument drawn from a bounded set.                       *)

U8 == 0..(U8Range - 1)

\* the segment counts handed to Figure::Circle whose whole mesh is kept
SegmentInputs == 0..MaxSegments

\* the segment counts around the width of the u16 index type, of whose mesh
\* the lengths are kept
WideSegmentInputs == (U16Range - 2)..(U16Range + MaxWrap)

FixedFigures ==
    {Figure("Triangle"), Figure("Pentagon"), Figure("Rectangle"),
     Figure("Trapezoid"), Figure("Parallelogram")}

CoreFigures == {"Triangle", "Pentagon", "Rectange", "Trapezoid", "Parallelogram", "Circle"}

\* the two modules that define Vertex and Vertex::desc
VertexModules == {"vertex::vertex", "core::vertex"}

InitCatalog ==
    /\ AppInit
    /\ overflow_checks = FALSE
    /\ fn_pc = "call"
    /\ fn_ret = <<>>
    /\ \/ fn_arg \in {<<"vertex::get_figure", i>> : i \in U8}
       \/ fn_arg \in {<<"core::get_figure", i>> : i \in U8}
       \/ fn_arg \in {<<"Mesh", f>> : f \in FixedFigures \cup {Circle(n) : n \in SegmentInputs}}
       \/ fn_arg \in {<<"Mesh::len", Circle(n)>> : n \in SegmentInputs \cup WideSegmentInputs}
       \/ fn_arg \in {<<"Mesh::indices", Circle(n)>> : n \in WideSegmentInputs}
       \/ fn_arg \in {<<"get_vertices_and_indices", f>> : f \in CoreFigures}
       \/ fn_arg \in {<<"Vertex::desc", m>> : m \in VertexModules}

\* vertex::Figure::get_figure(i)
CallGetFigure ==
    /\ fn_pc = "call"
    /\ fn_arg[1] = "vertex::get_figure"
    /\ fn_ret' = <<get_figure(fn_arg[2])>>
    /\ fn_pc' = "return"
    /\ UNCHANGED <<appVars, overflow_checks, fn_arg>>

\* core::Figure::get_figure(i)
CallCoreGetFigure ==
    /\ fn_pc = "call"
    /\ fn_arg[1] = "core::get_figure"
    /\ fn_ret' = <<core_get_figure(fn_arg[2])>>
    /\ fn_pc' = "return"
    /\ UNCHANGED <<appVars, overflow_checks, fn_arg>>

\* figure.get_vertices() and figure.get_indices(), as test_vertex.rs calls them
CallMesh ==
    /\ fn_pc = "call"
    /\ fn_arg[1] = "Mesh"
    /\ fn_ret' = <<get_vertices(fn_arg[2]), get_indices(fn_arg[2])>>
    /\ fn_pc' = "return"
    /\ UNCHANGED <<appVars, overflow_checks, fn_arg>>

\* figure.get_vertices().len() and figure.get_indices().len(), the values
\* test_vertex.rs asserts on, and whether every index addresses a vertex
CallMeshLen ==
    /\ fn_pc = "call"
    /\ fn_arg[1] = "Mesh::len"
    /\ LET vertices == get_vertices(fn_arg[2])
           indices == get_indices(fn_arg[2])
       IN  fn_ret' = [ vertices_len |-> Len(vertices),
                       indices_len |-> Len(indices),
                       indices_in_bounds |->
                           {indices[k] : k \in 1..Len(indices)} \subseteq 0..(Len(vertices) - 1) ]
    /\ fn_pc' = "return"
    /\ UNCHANGED <<appVars, overflow_checks, fn_arg>>

\* figure.get_indices() alone
CallIndices ==
    /\ fn_pc = "call"
    /\ fn_arg[1] = "Mesh::indices"
    /\ fn_ret' = get_indices(fn_arg[2])
    /\ fn_pc' = "return"
    /\ UNCHANGED <<appVars, overflow_checks, fn_arg>>

\* core::Figure::get_vertices_and_indices()
CallGetVerticesAndIndices ==
    /\ fn_pc = "call"
    /\ fn_arg[1] = "get_vertices_and_indices"
    /\ fn_ret' = get_vertices_and_indices(fn_arg[2])
    /\ fn_pc' = "return"
    /\ UNCHANGED <<appVars, overflow_checks, fn_arg>>

\* Vertex::desc(), with size_of::<Vertex>() and the offsets of the two fields
CallDesc ==
    /\ fn_pc = "call"
    /\ fn_arg[1] = "Vertex::desc"
    /\ fn_ret' = [ desc |-> desc,
                   size_of |-> SizeOf(VertexFields),
                   offset_of |-> [k \in 1..Len(VertexFields) |-> OffsetOf(VertexFields, k)] ]
    /\ fn_pc' = "return"
    /\ UNCHANGED <<appVars, overflow_checks, fn_arg>>

NextCatalog ==
    \/ CallGetFigure
    \/ CallCoreGetFigure
    \/ CallMesh
    \/ CallMeshLen
    \/ CallIndices
    \/ CallGetVerticesAndIndices
    \/ CallDesc

SpecCatalog == InitCatalog /\ [][NextCatalog]_vars

----
(* Properties of the figure selector and of the buffer pair, under Spec *)

SpaceReleasedEvent == KeyEvent("Space", "Released", FALSE)

IsSpaceRelease(e) == e[1] = "KeyboardInput" /\ e[2] = "Space" /\ e[3] = "Released"

\* the figure fields a context showing ordinal i holds after the Space handler
ShownFields(i) ==
    LET mesh == get_vertices_and_indices(core_get_figure(i))
    IN  [ fig_idx |-> i,
          vertex_buffer |-> mesh[1],
          num_vertices |-> Len(mesh[1]),
          index_buffer |-> mesh[2],
          num_indices |-> Len(mesh[2]) ]

\* what a render of a context showing ordinal i draws
ShownFrame(i) ==
    [ vertex_buffer |-> ShownFields(i).vertex_buffer,
      index_buffer |-> ShownFields(i).index_buffer,
      num_indices |-> ShownFields(i).num_indices ]

\* C1: handling one release of the Space key moves the ordinal s in 0..5 to
\* s + 1, and from 5 back to 0.
C1_AdvanceIsSuccessorMod6 ==
    [][ (last_event' = SpaceReleasedEvent /\ status' = "running")
          => /\ context[1].fig_idx \in 0..5
             /\ context'[1].fig_idx =
                   IF context[1].fig_idx = 5 THEN 0 ELSE context[1].fig_idx + 1 ]_vars

\* an advance from Circle (5) has just wrapped to Triangle (0)
C1_Witness ==
    /\ last_event = SpaceReleasedEvent
    /\ status = "running"
    /\ Len(history) >= 2
    /\ history[Len(history) - 1] = 5
    /\ context[1].fig_idx = 0

\* C2: six consecutive advances return to the ordinal they started from, the
\* six ordinals on the way are pairwise distinct, and an advance is possible
\* in every state in which window events are delivered.
C2_CyclicClosure ==
    /\ Len(history) = 7
          => /\ history[7] = history[1]
             /\ \A a, b \in 1..6 : a # b => history[a] # history[b]
    /\ Delivered => ENABLED SpaceReleased

\* six advances have been made
C2_Witness ==
    /\ Len(history) = 7
    /\ last_event = SpaceReleasedEvent
    /\ context[1].fig_idx = history[1]

\* C3: the ordinal is 0 when the context is created and stays in 0..5, so
\* fig_idx + 1 fits in a u8 and get_figure never takes its fallback arm.
C3_OrdinalInRange ==
    context # <<>>
       => /\ context[1].fig_idx \in 0..5
          /\ context[1].fig_idx + 1 < U8Range
          /\ Len(history) = 1 => context[1].fig_idx = 0
          /\ \A k \in 1..Len(history) : history[k] \in 0..5
          /\ status # "panic: attempt to add with overflow"

\* the last ordinal has been reached by advances
C3_Witness ==
    /\ context # <<>>
    /\ context[1].fig_idx = 5
    /\ Len(history) = 6
    /\ history[1] = 0

\* C4: in every state the buffers and counts of the context are those of the
\* figure of the current ordinal, and a render that has just run drew them.
C4_BufferPairConsistent ==
    context # <<>>
       => /\ FigureFields(context[1]) = ShownFields(context[1].fig_idx)
          /\ \A k \in 1..context[1].num_indices :
                context[1].index_buffer[k] < context[1].num_vertices
          /\ (last_event = Event("RedrawRequested") /\ status = "running")
                => frame = <<ShownFrame(context[1].fig_idx)>>

\* a render has just drawn the trapezoid, whose index table differs from the
\* rectangle's shown before it
C4_Witness ==
    /\ context # <<>>
    /\ last_event = Event("RedrawRequested")
    /\ status = "running"
    /\ context[1].fig_idx = 3
    /\ frame # <<>>
    /\ frame[1].index_buffer = <<0, 1, 2, 0, 2, 3>>

\* C5: a handled release of Space leaves the context with the mesh of the new
\* ordinal and a redraw requested after the replacement; the render that
\* answers a request draws what the context held when the redraw was requested.
C5_RedrawAfterReplacement ==
    [][ /\ (last_event' = SpaceReleasedEvent /\ status' = "running")
            => /\ context'[1].fig_idx # context[1].fig_idx
               /\ FigureFields(context'[1]) = ShownFields(context'[1].fig_idx)
               /\ redraw_requested'
               /\ requested' = <<FigureFields(context'[1])>>
        /\ (last_event' = Event("RedrawRequested") /\ status' = "running" /\ redraw_requested)
            => /\ requested # <<>>
               /\ frame' = <<ShownFrame(requested[1].fig_idx)>>
               /\ requested[1].fig_idx = context'[1].fig_idx ]_vars

\* the redraw requested by an advance to the circle has been rendered
C5_Witness ==
    /\ last_event = Event("RedrawRequested")
    /\ status = "running"
    /\ requested # <<>>
    /\ requested[1].fig_idx = 5
    /\ frame = <<ShownFrame(5)>>
    /\ ~redraw_requested

\* C6: every window event other than a release of Space leaves the ordinal,
\* both buffers and both counts as they were.
C6_OnlySpaceReleaseChangesFigure ==
    [][ (context # <<>> /\ ~IsSpaceRelease(last_event'))
          => /\ context' # <<>>
             /\ FigureFields(context'[1]) = FigureFields(context[1]) ]_vars

\* a repeated press of Space has been handled while the pentagon is shown
C6_Witness ==
    /\ context # <<>>
    /\ last_event = KeyEvent("Space", "Pressed", TRUE)
    /\ context[1].fig_idx = 1
    /\ redraw_requested

----
(* Properties of the catalog, under SpecCatalog *)

Returned(fn) == fn_pc = "return" /\ fn_arg[1] = fn

C8_DocumentedDefault ==
    /\ (Returned("vertex::get_figure") /\ fn_arg[2] \notin 0..4)
          => fn_ret[1].tag = "Triangle"
    /\ (Returned("core::get_figure") /\ fn_arg[2] \notin 0..4)
          => fn_ret[1] = "Triangle"

\* C9: for the five fixed polygons and for Circle(n), n >= 1, every index is
\* smaller than the number of vertices and the number of indices is a
\* multiple of 3.
C9_IndicesInBounds ==
    /\ ( \/ Returned("Mesh") /\ (fn_arg[2].tag = "Circle" => fn_arg[2].segments >= 1)
         \/ Returned("get_vertices_and_indices") )
       => /\ \A k \in 1..Len(fn_ret[2]) : fn_ret[2][k] \in 0..(Len(fn_ret[1]) - 1)
          /\ Len(fn_ret[2]) % 3 = 0
    /\ (Returned("Mesh::len") /\ fn_arg[2].segments >= 1)
       => /\ fn_ret.indices_in_bounds
          /\ fn_ret.indices_len % 3 = 0

\* the circle of 64 segments has been generated and its last triangle
\* addresses the last vertex
C9_Witness ==
    /\ Returned("Mesh")
    /\ fn_arg[2] = Circle(64)
    /\ Len(fn_ret[2]) > 0
    /\ fn_ret[2][Len(fn_ret[2])] = Len(fn_ret[1]) - 1

\* C10: Circle(n) yields n + 2 vertices and 3n indices for every n >= 1.
C10_CircleSizes ==
    /\ (Returned("Mesh") /\ fn_arg[2].tag = "Circle" /\ fn_arg[2].segments >= 1)
          => /\ Len(fn_ret[1]) = fn_arg[2].segments + 2
             /\ Len(fn_ret[2]) = 3 * fn_arg[2].segments
    /\ (Returned("Mesh::len") /\ fn_arg[2].segments >= 1)
          => /\ fn_ret.vertices_len = fn_arg[2].segments + 2
             /\ fn_ret.indices_len = 3 * fn_arg[2].segments

\* the numbers of vertices and of indices of the fixed polygon with this tag
FixedSizes(tag) ==
    CASE tag = "Triangle" -> <<3, 3>>
      [] tag = "Pentagon" -> <<5, 9>>
      [] tag \in {"Rectangle", "Rectange", "Trapezoid", "Parallelogram"} -> <<4, 6>>

IsFan(indices, n) ==
    indices = [ k \in 1..(3 * n) |->
                  CASE k % 3 = 1 -> 0
                    [] k % 3 = 2 -> (k + 1) \div 3
                    [] OTHER -> (k \div 3) + 1 ]

\* C12: the index sequence of a circle of n segments is the fan (0, i, i + 1)
\* for i = 1..n in that order, ending at the closing vertex n + 1.
C12_CircleFan ==
    /\ (Returned("Mesh") /\ fn_arg[2].tag = "Circle")
          => IsFan(fn_ret[2], fn_arg[2].segments)
    /\ Returned("Mesh::indices") => IsFan(fn_ret, fn_arg[2].segments)
    /\ (Returned("get_vertices_and_indices") /\ fn_arg[2] = "Circle")
          => IsFan(fn_ret[2], 64)

\* C13: for the segment count 0 the generator returns a single vertex, the
\* center, and no indices.
C13_DegenerateCircle ==
    /\ (Returned("Mesh") /\ fn_arg[2] = Circle(0))
          => /\ Len(fn_ret[1]) = 1
             /\ fn_ret[1][1] = Vertex(0, 0, 0, 50000000, 50000000, 50000000)
             /\ fn_ret[2] = <<>>
    /\ (Returned("Mesh::len") /\ fn_arg[2] = Circle(0))
          => /\ fn_ret.vertices_len = 1
             /\ fn_ret.indices_len = 0

----
(* Exact sign of the area of a triangle of literal positions.  Coordinates  *)
(* are integers in units of 1e-8; a product is kept as <<hi, lo>> with      *)
(* value hi * 1e8 + lo and 0 <= lo < 1e8, so that no intermediate value     *)
(* leaves the 32-bit range.                                                *)

Product(a, b) ==
    LET a1 == a \div 10000
        a0 == a % 10000
        b1 == b \div 10000
        b0 == b % 10000
        mid == a1 * b0 + a0 * b1
        low == (mid % 10000) * 10000 + a0 * b0
    IN  <<a1 * b1 + (mid \div 10000) + (low \div 100000000), low % 100000000>>

Greater(p, q) == p[1] > q[1] \/ (p[1] = q[1] /\ p[2] > q[2])

\* twice the signed area of (p, q, r) is positive: p, q, r counter-clockwise
CounterClockwise(p, q, r) ==
    LET px == p.position[1].amp
        py == p.position[2].amp
    IN  Greater(Product(q.position[1].amp - px, r.position[2].amp - py),
                Product(q.position[2].amp - py, r.position[1].amp - px))

AllCounterClockwise(vertices, indices) ==
    \A t \in 1..(Len(indices) \div 3) :
        CounterClockwise(vertices[indices[3 * t - 2] + 1],
                         vertices[indices[3 * t - 1] + 1],
                         vertices[indices[3 * t] + 1])

\* C14: every index triple of every fixed polygon names its vertices in
\* counter-clockwise order (strictly positive signed area), in both
\* revisions of the tables.
C14_FixedPolygonsCounterClockwise ==
    /\ (Returned("Mesh") /\ fn_arg[2].tag # "Circle")
          => AllCounterClockwise(fn_ret[1], fn_ret[2])
    /\ (Returned("get_vertices_and_indices") /\ fn_arg[2] # "Circle")
          => AllCounterClockwise(fn_ret[1], fn_ret[2])

\* the parallelogram's two triangles have been returned
C14_Witness ==
    /\ Returned("Mesh")
    /\ fn_arg[2] = Figure("Parallelogram")
    /\ Len(fn_ret[2]) = 6
    /\ CounterClockwise(fn_ret[1][2], fn_ret[1][3], fn_ret[1][4])
    /\ ~CounterClockwise(fn_ret[1][2], fn_ret[1][4], fn_ret[1][3])

----
\* the indices that occur in every triple of an index table
FanAnchors(indices) ==
    { a \in { indices[k] : k \in 1..Len(indices) } :
        \A t \in 1..(Len(indices) \div 3) :
            a \in { indices[3 * t - 2], indices[3 * t - 1], indices[3 * t] } }

FixedReturn ==
    \/ Returned("Mesh") /\ fn_arg[2].tag # "Circle"
    \/ Returned("get_vertices_and_indices") /\ fn_arg[2] # "Circle"

\* C15 as stated: every index triple of every fixed polygon table contains
\* index 0.
C15_EveryTripleContainsZero ==
    FixedReturn => 0 \in FanAnchors(fn_ret[2])

\* C15 as amended: every fixed polygon table is a fan (all its triples share
\* a vertex), but vertex 0 is shared only in the Triangle table and in the
\* Trapezoid and Parallelogram tables of core/vertex.rs (split along the
\* diagonal 0-2); the Pentagon is fanned out from vertex 4, and the
\* Rectangle and the quadrilaterals of vertex/mod.rs are split along the
\* diagonal 1-3.
C15_FanAnchor ==
    /\ (Returned("Mesh") /\ fn_arg[2].tag # "Circle")
          => FanAnchors(fn_ret[2]) =
                 CASE fn_arg[2].tag = "Triangle" -> {0, 1, 2}
                   [] fn_arg[2].tag = "Pentagon" -> {4}
                   [] OTHER -> {1, 3}
    /\ (Returned("get_vertices_and_indices") /\ fn_arg[2] # "Circle")
          => FanAnchors(fn_ret[2]) =
                 CASE fn_arg[2] = "Triangle" -> {0, 1, 2}
                   [] fn_arg[2] = "Pentagon" -> {4}
                   [] fn_arg[2] = "Rectange" -> {1, 3}
                   [] fn_arg[2] \in {"Trapezoid", "Parallelogram"} -> {0, 2}

\* the pentagon's table has been returned; its triples share vertex 4 only
C15_Witness ==
    /\ Returned("Mesh")
    /\ fn_arg[2] = Figure("Pentagon")
    /\ FanAnchors(fn_ret[2]) = {4}

----
(* Range of a component.  amp * fn(2 pi t) with t = num / den + sixths / 6  *)
(* is read over the reals: with m = (6 num + sixths den) mod 6 den, the     *)
(* sine is non-negative iff m / (6 den) <= 1/2, the cosine iff it is <= 1/4 *)
(* or >= 3/4.  A division by zero (den = 0) gives NaN, which no interval    *)
(* contains.                                                               *)

TurnSixths(c) == (6 * c.num + c.sixths * c.den) % (6 * c.den)

InUnitInterval(c) ==
    /\ c.den # 0
    /\ c.amp \in 0..100000000
    /\ CASE c.fn = "const" -> TRUE
         [] c.fn = "sin" -> 2 * TurnSixths(c) <= 6 * c.den
         [] c.fn = "cos" -> \/ 4 * TurnSixths(c) <= 6 * c.den
                            \/ 4 * TurnSixths(c) >= 18 * c.den

ColorsInUnitInterval(vertices) ==
    \A v \in { vertices[k] : k \in 1..Len(vertices) } :
        \A j \in 1..3 : InUnitInterval(v.color[j])

\* C16: every color component of every vertex of every catalog figure lies
\* in [0.0, 1.0], the circle's rim vertices included (circles of at least
\* one segment, for which the rim angle i * 2 pi / n is defined).
C16_ColorsInUnitInterval ==
    /\ (Returned("Mesh") /\ fn_arg[2] # Circle(0))
          => ColorsInUnitInterval(fn_ret[1])
    /\ Returned("get_vertices_and_indices")
          => ColorsInUnitInterval(fn_ret[1])

----
\* C17: as the circle index generator documents, for n segments the indices
\* address a vertex list of n + 1 vertices whose first vertex is the
\* center, the rim indices (read as the rim vertex each triangle starts at)
\* starting at the second vertex and ending at the second-to-last vertex of
\* the list.
C17_DocumentedCircleLayout ==
    (Returned("get_vertices_and_indices") /\ fn_arg[2] = "Circle")
        => LET starts == { fn_ret[2][3 * t - 1] : t \in 1..(Len(fn_ret[2]) \div 3) }
           IN  /\ Len(fn_ret[1]) = CircleSegments + 1
               /\ fn_ret[1][1] = Vertex(0, 0, 0, 50000000, 50000000, 50000000)
               /\ starts = 1..(Len(fn_ret[1]) - 2)

----
\* C18: as documented on Context::render, when the current frame cannot be
\* acquired render returns the surface error to its caller, and the
\* application is still running (or exiting in good order) after the
\* handler that called it.
C18_RenderReturnsErr ==
    [][ (last_event' = Event("RedrawRequested") /\ surface_result' # "Ok")
            => /\ render(context[1], surface_result').result = surface_result'
               /\ status' \in {"running", "exited"} ]_vars

----
\* C19: the Vertex record is tightly packed: 24 bytes, position at offset 0
\* and color at offset 12 with no padding, and Vertex::desc() reports a
\* stride of 24 and exactly two Float32x3 attributes, at offsets 0 and 12,
\* bound to shader locations 0 and 1.
C19_VertexLayout ==
    Returned("Vertex::desc")
        => /\ fn_ret.size_of = 24
           /\ fn_ret.offset_of = <<0, 12>>
           /\ fn_ret.desc.array_stride = 24
           /\ fn_ret.desc.attributes =
                 << [offset |-> 0, shader_location |-> 0, format |-> "Float32x3"],
                    [offset |-> 12, shader_location |-> 1, format |-> "Float32x3"] >>

\* desc() has returned, its attributes lying on the fields of the record
C19_Witness ==
    /\ Returned("Vertex::desc")
    /\ Len(fn_ret.desc.attributes) = 2
    /\ \A k \in 1..2 : fn_ret.desc.attributes[k].offset = fn_ret.offset_of[k]
    /\ fn_ret.desc.array_stride = fn_ret.size_of

----
\* C20: a failed render during RedrawRequested is handled by the kind of the
\* error: on Lost the surface is reconfigured at the context's current size
\* and another redraw is requested, the application running on; on
\* OutOfMemory the event loop is asked to exit; any other error leaves the
\* state as it was; the figure ordinal and the buffer pair never change.
C20_FailedRenderHandling ==
    [][ (last_event' = Event("RedrawRequested") /\ surface_result' # "Ok")
            => /\ FigureFields(context'[1]) = FigureFields(context[1])
               /\ surface_result' = "Lost"
                     => /\ status' = "running"
                        /\ context'[1].size = context[1].size
                        /\ context'[1].surface = context[1].size
                        /\ redraw_requested'
               /\ surface_result' = "OutOfMemory" => status' = "exited"
               /\ surface_result' \in {"Timeout", "Outdated"}
                     => /\ status' = "running"
                        /\ UNCHANGED <<window, context, frame, history>> ]_vars

----
\* what resize must leave alone whatever the new size is
ResizeKeeps(c, d) == FigureFields(d) = FigureFields(c)

\* C21: resize(new_size) with a zero width or a zero height changes nothing
\* (size, config and the surface configuration keep their values); with
\* both dimensions positive it sets size and config to new_size and
\* configures the surface with them; hence after every Resized or
\* ScaleFactorChanged event config equals size, and no resize stores a zero
\* dimension.
C21_ResizeSemantics ==
    [][ last_event' \in {Event("Resized"), Event("ScaleFactorChanged")}
            => LET c == context[1]
                   d == context'[1]
               IN  /\ \A width \in 0..MaxSize, height \in 0..MaxSize :
                          IF width = 0 \/ height = 0
                          THEN resize(c, width, height) = c
                          ELSE /\ resize(c, width, height).size = <<width, height>>
                               /\ resize(c, width, height).config = <<width, height>>
                               /\ resize(c, width, height).surface = <<width, height>>
                               /\ ResizeKeeps(c, resize(c, width, height))
                   /\ d.config = d.size
                   /\ ResizeKeeps(c, d)
                   /\ \/ d = c
                      \/ /\ d.size[1] > 0
                         /\ d.size[2] > 0
                         /\ d.surface = d.size ]_vars

\* a ScaleFactorChanged event has been handled and the context holds the
\* positive size a resize stored and configured the surface with
C21_Witness ==
    /\ last_event = Event("ScaleFactorChanged")
    /\ context # <<>>
    /\ context[1].size = <<1, 2>>
    /\ context[1].config = <<1, 2>>
    /\ context[1].surface = <<1, 2>>
    /\ redraw_requested

----
(* The window and the context, under SpecAnyOrder *)

\* the window is present if and only if the context is, before and after
\* the step; a Resumed step that finds them present leaves both as they
\* are; a Resumed step that finds them absent and does not panic creates
\* both, the context showing the figure of ordinal 0
CreatedTogetherOnce ==
    /\ window <=> context # <<>>
    /\ window' <=> context' # <<>>
    /\ (last_event' = Event("Resumed") /\ window) => UNCHANGED <<window, context>>
    /\ (last_event' = Event("Resumed") /\ ~window /\ status' = "running")
          => /\ window'
             /\ context' # <<>>
             /\ \E width \in 1..MaxSize, height \in 1..MaxSize :
                   context'[1] = ContextNew(width, height)
    /\ (last_event' # Event("Resumed") /\ window) => window'

\* a window event is handled while the window and the context are absent
AbsentStep == ~window /\ last_event' # Event("Resumed")

\* C22 as stated: the window and the context are created together and at
\* most once, and a window event handled while they are absent aborts on
\* unwrap.
C22_AbsentEventsAbort ==
    [][ /\ CreatedTogetherOnce
        /\ AbsentStep => status' = UnwrapNone ]_vars

\* C22 as amended: the window and the context are created together and at
\* most once; while they are absent a RedrawRequested, Resized,
\* ScaleFactorChanged or Space key event aborts on unwrap, CloseRequested
\* still asks the event loop to exit, and every other event is ignored.
C22_CreatedTogetherOnce ==
    [][ /\ CreatedTogetherOnce
        /\ AbsentStep
              => /\ UNCHANGED <<window, context>>
                 /\ status' = CASE last_event' \in UnwrappingEvents -> UnwrapNone
                                [] last_event' = Event("CloseRequested") -> "exited"
                                [] OTHER -> "running" ]_vars

\* a later Resumed has been handled with the figure advanced: the context
\* was not created anew
C22_Witness ==
    /\ last_event = Event("Resumed")
    /\ window
    /\ context # <<>>
    /\ context[1].fig_idx = 1
    /\ status = "running"

====
